---- MODULE Spec2Model ----
(***************************************************************************)
(* A model of parens-checker (checker.py): the token classifier            *)
(* NodeKind.from_token, the bracket-aware tree builder parse_ast and the   *)
(* wrapping evaluator ValidatingVisitor / validate.                        *)
(*                                                                         *)
(* A token is a record [type, string, start, end]: type is the name of the *)
(* tokenize token type, string is the token text as a sequence of          *)
(* one-character strings (so that Python's substring test `in` can be      *)
(* modelled as it behaves), start and end are <<line, column>> pairs.      *)
(*                                                                         *)
(* Nodes are records tagged by their class in field t:                     *)
(*   Node(children), SingleTokenNode(token, kind), MultiTokenNode(tokens), *)
(*   ParensGroupNode(start, children, end).                                *)
(***************************************************************************)
EXTENDS Integers, Sequences, FiniteSets, TLC

VARIABLES
    tokens,        \* the tokens the iterable has yielded so far, in order
    stack,         \* parse_ast: stack of OpenParensGroup frames
    spare_tokens,  \* parse_ast: pending buffer of OTHER tokens
    spare_nodes,   \* parse_ast: the list spare_nodes refers to: 0 is
                   \* root.children, k > 0 is stack[k].children
    root,          \* parse_ast: root.children
    pc,            \* position of the program
    raised,        \* name of the exception that ended parse_ast, or "none"
    ret,           \* <<>> until parse_ast returns, then <<root node>>
    errors,        \* ValidatingVisitor.errors as returned by validate
    calls,         \* start position of every ParensGroupNode on which
                   \* visitParensGroupNode was invoked, in call order
    kind           \* result of the last stand-alone from_token call

vars == <<tokens, stack, spare_tokens, spare_nodes, root, pc, raised, ret,
          errors, calls, kind>>

(***************************************************************************)
(* Bounds of the model.                                                    *)
(***************************************************************************)
MaxBuildTokens == 4
MaxEvalTokens == 5
MaxOrderTokens == 6

(***************************************************************************)
(* token types and WHITESPACE_TOKENS                                       *)
(***************************************************************************)
\* Mutation: only the indentation markers count as whitespace.
WHITESPACE_TOKENS_IndentOnly == {"INDENT", "DEDENT"}

WHITESPACE_TOKENS == {"NEWLINE", "INDENT", "DEDENT", "NL"}

COMMA == "comma"
OPEN_PAREN == "open_paren"
CLOSE_PAREN == "close_paren"
NodeKind_OTHER == "other"

\* Python's `s in t` for two strings: s occurs in t as a contiguous substring
\* (the empty string occurs in every string).
StrIn(s, t) ==
    \E i \in 0..(Len(t) - Len(s)) : SubSeq(t, i + 1, i + Len(s)) = s

from_token(tok) ==
    IF tok.type = "OP"
    THEN IF tok.string = <<",">> THEN COMMA
         ELSE IF StrIn(tok.string, <<"(", "[", "{">>) THEN OPEN_PAREN
         ELSE IF StrIn(tok.string, <<")", "]", "}">>) THEN CLOSE_PAREN
         ELSE NodeKind_OTHER
    ELSE NodeKind_OTHER

(***************************************************************************)
(* The node classes.                                                       *)
(***************************************************************************)
Node(children) == [t |-> "Node", children |-> children]

SingleTokenNode(tok) ==
    [t |-> "SingleTokenNode", token |-> tok, kind |-> from_token(tok)]

MultiTokenNode(toks) == [t |-> "MultiTokenNode", tokens |-> toks]

ParensGroupNode(start, children, end) ==
    [t |-> "ParensGroupNode", start |-> start, children |-> children,
     end |-> end]

OpenParensGroup(start) == [start |-> start, children |-> <<>>]

RECURSIVE start_pos(_)
start_pos(node) ==
    CASE node.t = "SingleTokenNode" -> node.token.start
      [] node.t = "MultiTokenNode" -> node.tokens[1].start
      [] node.t = "ParensGroupNode" -> start_pos(node.start)
      [] OTHER -> start_pos(node.children[1])

start_line(node) == start_pos(node)[1]

RECURSIVE end_line(_)
end_line(node) ==
    CASE node.t = "SingleTokenNode" -> node.token.end[1]
      [] node.t = "MultiTokenNode" -> node.tokens[Len(node.tokens)].end[1]
      [] node.t = "ParensGroupNode" -> end_line(node.end)
      [] OTHER -> end_line(node.children[Len(node.children)])

is_single_line(node) == start_line(node) = end_line(node)

is_comma(node) == node.t = "SingleTokenNode" /\ node.kind = COMMA

is_close_paren(node) == node.t = "SingleTokenNode" /\ node.kind = CLOSE_PAREN

\* ParensGroupNode.validate_start_end: "ok", or the exception it raises
\* (KeyError from the dict lookup, ValueError from the comparison).
expected_end ==
    [s \in {<<"(">>, <<"{">>, <<"[">>} |->
        CASE s = <<"(">> -> <<")">>
          [] s = <<"{">> -> <<"}">>
          [] s = <<"[">> -> <<"]">>]

validate_start_end(start, end) ==
    IF start.string \notin DOMAIN expected_end THEN "KeyError"
    ELSE IF end.string # expected_end[start.string] THEN "ValueError"
    ELSE "ok"

\* Mutation: the children are split at every comma, as str.split does, so
\* that a leading, doubled or trailing comma yields an empty chunk.
RECURSIVE NonCommaChunks_Split(_, _, _)
NonCommaChunks_Split(children, cur, acc) ==
    IF children = <<>>
    THEN Append(acc, Node(cur))
    ELSE IF is_comma(Head(children))
         THEN NonCommaChunks_Split(Tail(children), <<>>, Append(acc, Node(cur)))
         ELSE NonCommaChunks_Split(Tail(children), Append(cur, Head(children)),
                                   acc)

\* itertools.groupby(children, is_comma), keeping the chunks of non-commas:
\* cur is the chunk being collected, acc the chunks already closed.
RECURSIVE NonCommaChunks(_, _, _)
NonCommaChunks(children, cur, acc) ==
    IF children = <<>>
    THEN IF cur = <<>> THEN acc ELSE Append(acc, Node(cur))
    ELSE IF is_comma(Head(children))
         THEN NonCommaChunks(Tail(children), <<>>,
                             IF cur = <<>> THEN acc ELSE Append(acc, Node(cur)))
         ELSE NonCommaChunks(Tail(children), Append(cur, Head(children)), acc)

iter_comma_separated(node) ==
    <<node.start>> \o NonCommaChunks(node.children, <<>>, <<>>) \o <<node.end>>

\* zip(a, b) with b advanced by one item: the pairs (prev, cur).
zip_with_prev(items) ==
    [i \in 1..(Len(items) - 1) |-> <<items[i], items[i + 1]>>]

(***************************************************************************)
(* ValidatingVisitor.  The visitor's state v is [errors, calls]: errors is *)
(* self.errors, calls records the invocations of visitParensGroupNode.     *)
(***************************************************************************)
Error(pos, message) == [line |-> pos[1], col |-> pos[2], message |-> message]

\* repr() of a token text that holds no quote character.
Repr(s) == <<"'">> \o s \o <<"'">>

ClosingMessage(s) == <<"Closing ">> \o Repr(s) \o <<" not wrapped">>

ArgumentMessage ==
    <<"Argument should be wrapped when containing parens are wrapped">>

ErrorFor(x) ==
    IF x.t = "SingleTokenNode" /\ x.kind = CLOSE_PAREN
    THEN Error(start_pos(x), ClosingMessage(x.token.string))
    ELSE Error(start_pos(x), ArgumentMessage)

\* Lines 300-303: (starts on same line as previous, node) for every item
\* of iter_comma_separated but the first.
states(node) ==
    LET pairs == zip_with_prev(iter_comma_separated(node))
    IN  [i \in 1..Len(pairs) |->
            <<end_line(pairs[i][1]) = start_line(pairs[i][2]), pairs[i][2]>>]

\* Line 305.
same_line_starts(node) ==
    LET hugs == SelectSeq(states(node), LAMBDA s : s[1])
    IN  [i \in 1..Len(hugs) |-> hugs[i][2]]

\* Mutation: the test of line 307 with <= for <.
Reported_NotStrict(node) ==
    IF same_line_starts(node) # <<>>
       /\ Len(same_line_starts(node)) <= Len(states(node))
    THEN [i \in 1..Len(same_line_starts(node)) |->
            ErrorFor(same_line_starts(node)[i])]
    ELSE <<>>

\* Mutation: a flagged group reports every item, not only the hugging ones.
Reported_EveryItem(node) ==
    IF same_line_starts(node) # <<>>
       /\ Len(same_line_starts(node)) < Len(states(node))
    THEN [i \in 1..Len(states(node)) |-> ErrorFor(states(node)[i][2])]
    ELSE <<>>

\* Lines 307-319: the errors one group adds to self.errors.
Reported(node) ==
    IF same_line_starts(node) # <<>>
       /\ Len(same_line_starts(node)) < Len(states(node))
    THEN [i \in 1..Len(same_line_starts(node)) |->
            ErrorFor(same_line_starts(node)[i])]
    ELSE <<>>

RECURSIVE visit(_, _)
RECURSIVE visitChildrenFrom(_, _, _)
RECURSIVE visitParensGroupNode(_, _)

visitChildren(node, v) == visitChildrenFrom(node.children, 1, v)

Entered(node, v) == [v EXCEPT !.calls = Append(@, start_pos(node))]

\* Mutation: no exemption at all; every hugging item of a group is reported.
visitParensGroupNode_NoExemption(node, v) ==
    IF node.children = <<>>
    THEN Entered(node, v)
    ELSE visitChildren(node,
            [Entered(node, v) EXCEPT !.errors =
                @ \o [i \in 1..Len(same_line_starts(node)) |->
                        ErrorFor(same_line_starts(node)[i])]])

\* Mutation: the children of a flagged group are not visited.
visitParensGroupNode_StopWhenFlagged(node, v) ==
    IF is_single_line(node) \/ node.children = <<>>
    THEN Entered(node, v)
    ELSE IF Reported(node) # <<>>
    THEN [Entered(node, v) EXCEPT !.errors = @ \o Reported(node)]
    ELSE visitChildren(node, Entered(node, v))

\* Mutation: the children are visited before the group's own errors are
\* added.
visitParensGroupNode_ChildrenFirst(node, v) ==
    IF is_single_line(node) \/ node.children = <<>>
    THEN Entered(node, v)
    ELSE [visitChildren(node, Entered(node, v)) EXCEPT !.errors =
            @ \o Reported(node)]

\* Mutation: a skipped group still has its children visited.
visitParensGroupNode_RecurseWhenSkipped(node, v) ==
    IF is_single_line(node) \/ node.children = <<>>
    THEN visitChildren(node, Entered(node, v))
    ELSE visitChildren(node,
            [Entered(node, v) EXCEPT !.errors = @ \o Reported(node)])

visitParensGroupNode(node, v) ==
    IF is_single_line(node) \/ node.children = <<>>
    THEN Entered(node, v)
    ELSE visitChildren(node,
            [Entered(node, v) EXCEPT !.errors = @ \o Reported(node)])

visitChildrenFrom(children, i, v) ==
    IF i > Len(children) THEN v
    ELSE visitChildrenFrom(children, i + 1, visit(children[i], v))

visit(node, v) ==
    CASE node.t = "ParensGroupNode" -> visitParensGroupNode(node, v)
      [] node.t = "Node" -> visitChildren(node, v)
      [] OTHER -> v

validate(node) == visit(node, [errors |-> <<>>, calls |-> <<>>])

(***************************************************************************)
(* The exceptions of the evaluation.  Each operator gives the name of the  *)
(* exception the code raises where the operator of the same name is        *)
(* evaluated, "none" when it raises none: children[0] and children[-1] of  *)
(* an empty container and tokens[0] and tokens[-1] of an empty Run raise   *)
(* IndexError, next(b) on an exhausted iterator raises StopIteration.      *)
(***************************************************************************)
RECURSIVE start_pos_raises(_)
start_pos_raises(node) ==
    CASE node.t = "SingleTokenNode" -> "none"
      [] node.t = "MultiTokenNode" ->
            IF node.tokens = <<>> THEN "IndexError" ELSE "none"
      [] node.t = "ParensGroupNode" -> start_pos_raises(node.start)
      [] OTHER -> IF node.children = <<>> THEN "IndexError"
                  ELSE start_pos_raises(node.children[1])

RECURSIVE end_line_raises(_)
end_line_raises(node) ==
    CASE node.t = "SingleTokenNode" -> "none"
      [] node.t = "MultiTokenNode" ->
            IF node.tokens = <<>> THEN "IndexError" ELSE "none"
      [] node.t = "ParensGroupNode" -> end_line_raises(node.end)
      [] OTHER -> IF node.children = <<>> THEN "IndexError"
                  ELSE end_line_raises(node.children[Len(node.children)])

is_single_line_raises(node) ==
    IF start_pos_raises(node) # "none" THEN start_pos_raises(node)
    ELSE end_line_raises(node)

zip_with_prev_raises(items) ==
    IF items = <<>> THEN "StopIteration" ELSE "none"

\* The first exception of a sequence of outcomes.
RECURSIVE FirstRaised(_)
FirstRaised(outcomes) ==
    IF outcomes = <<>> THEN "none"
    ELSE IF Head(outcomes) # "none" THEN Head(outcomes)
    ELSE FirstRaised(Tail(outcomes))

\* Lines 300-303: prev.end_line and cur.start_line of every pair.
states_raises(node) ==
    LET items == iter_comma_separated(node)
    IN  IF zip_with_prev_raises(items) # "none"
        THEN zip_with_prev_raises(items)
        ELSE FirstRaised([i \in 1..(Len(items) - 1) |->
                IF end_line_raises(items[i]) # "none"
                THEN end_line_raises(items[i])
                ELSE start_pos_raises(items[i + 1])])

RECURSIVE visit_raises(_)
visitChildren_raises(node) ==
    FirstRaised([i \in 1..Len(node.children) |->
                    visit_raises(node.children[i])])

visitParensGroupNode_raises(node) ==
    IF is_single_line_raises(node) # "none" THEN is_single_line_raises(node)
    ELSE IF is_single_line(node) \/ node.children = <<>> THEN "none"
    ELSE IF states_raises(node) # "none" THEN states_raises(node)
    ELSE visitChildren_raises(node)

visit_raises(node) ==
    CASE node.t = "ParensGroupNode" -> visitParensGroupNode_raises(node)
      [] node.t = "Node" -> visitChildren_raises(node)
      [] OTHER -> "none"

validate_raises(node) == visit_raises(node)

(***************************************************************************)
(* The token streams the model feeds to the program.  Positions are in     *)
(* document order: a token starts where the previous one ended, or at      *)
(* column 0 of the next line.                                              *)
(***************************************************************************)
Shape(type, string, lines) == [type |-> type, string |-> string, lines |-> lines]

EvalShapes ==
    { Shape("OP", <<"(">>, 1), Shape("OP", <<")">>, 1), Shape("OP", <<",">>, 1),
      Shape("NAME", <<"a">>, 1), Shape("STRING", <<"s">>, 2) }

BuildShapes ==
    { Shape("OP", <<"(">>, 1), Shape("OP", <<")">>, 1), Shape("OP", <<"[">>, 1),
      Shape("OP", <<"]">>, 1), Shape("OP", <<",">>, 1), Shape("NAME", <<"a">>, 1),
      Shape("NEWLINE", <<>>, 1), Shape("NL", <<>>, 1), Shape("INDENT", <<>>, 1),
      Shape("DEDENT", <<>>, 1), Shape("ENDMARKER", <<>>, 1) }

LastEnd == IF tokens = <<>> THEN <<1, 0>> ELSE tokens[Len(tokens)].end

TokenAt(shape, newline) ==
    LET start == IF newline THEN <<LastEnd[1] + 1, 0>> ELSE LastEnd
    IN  [type |-> shape.type, string |-> shape.string, start |-> start,
         end |-> IF shape.lines = 1 THEN <<start[1], start[2] + 1>>
                 ELSE <<start[1] + shape.lines - 1, 1>>]

\* The tokens a stream may yield next.  The first token starts at line 1,
\* column 0.  An evaluation stream breaks lines freely; a build stream
\* starts a new line after a NEWLINE or NL token.
Breaks == IF tokens = <<>> THEN {FALSE} ELSE BOOLEAN

EvalStream ==
    IF Len(tokens) >= MaxEvalTokens THEN {}
    ELSE { TokenAt(s, nl) : s \in EvalShapes, nl \in Breaks }

\* A longer evaluation stream of single-line tokens.
OrderShapes == { s \in EvalShapes : s.lines = 1 }

OrderStream ==
    IF Len(tokens) >= MaxOrderTokens THEN {}
    ELSE { TokenAt(s, nl) : s \in OrderShapes, nl \in Breaks }

BuildStream ==
    IF Len(tokens) >= MaxBuildTokens THEN {}
    ELSE { TokenAt(s, tokens # <<>>
                      /\ tokens[Len(tokens)].type \in {"NEWLINE", "NL"}) :
           s \in BuildShapes }

(***************************************************************************)
(* parse_ast, one action per branch of the loop body.                      *)
(***************************************************************************)
\* Append node to the list that reference ref (0: root.children, k:
\* stack[k].children) denotes, in the pair <<root, stack>>.
\* Mutation: the node always goes to root.children.
AppendTo_Root(ref, node, r, st) == <<Append(r, node), st>>

AppendTo(ref, node, r, st) ==
    IF ref = 0 THEN <<Append(r, node), st>>
    ELSE <<r, [st EXCEPT ![ref].children = Append(@, node)]>>

\* Lines 244-246: flush the pending buffer into spare_nodes.
Flushed ==
    IF spare_tokens # <<>>
    THEN AppendTo(spare_nodes, MultiTokenNode(spare_tokens), root, stack)
    ELSE <<root, stack>>

ParseSkip(stream) ==
    /\ pc = "parse"
    /\ \E tok \in stream :
        /\ tok.type = "ENDMARKER" \/ tok.type \in WHITESPACE_TOKENS
        /\ tokens' = Append(tokens, tok)
    /\ UNCHANGED <<stack, spare_tokens, spare_nodes, root, pc, raised, ret,
                   errors, calls, kind>>

ParseOther(stream) ==
    /\ pc = "parse"
    /\ \E tok \in stream :
        /\ ~(tok.type = "ENDMARKER" \/ tok.type \in WHITESPACE_TOKENS)
        /\ from_token(tok) = NodeKind_OTHER
        /\ tokens' = Append(tokens, tok)
        /\ spare_tokens' = Append(spare_tokens, tok)
    /\ UNCHANGED <<stack, spare_nodes, root, pc, raised, ret, errors, calls,
                   kind>>

ParseClose(stream) ==
    /\ pc = "parse"
    /\ \E tok \in stream :
        /\ ~(tok.type = "ENDMARKER" \/ tok.type \in WHITESPACE_TOKENS)
        /\ from_token(tok) = CLOSE_PAREN
        /\ tokens' = Append(tokens, tok)
        /\ spare_tokens' = <<>>
        /\ LET r1 == Flushed[1]
               s1 == Flushed[2]
           IN  IF s1 = <<>>
               THEN \* stack.pop() on an empty list
                    /\ root' = r1
                    /\ stack' = s1
                    /\ spare_nodes' = spare_nodes
                    /\ raised' = "IndexError"
                    /\ pc' = "failed"
               ELSE LET open_group == s1[Len(s1)]
                        s2 == SubSeq(s1, 1, Len(s1) - 1)
                        check == validate_start_end(open_group.start.token, tok)
                        node == ParensGroupNode(open_group.start,
                                                open_group.children,
                                                SingleTokenNode(tok))
                        after == AppendTo(Len(s2), node, r1, s2)
                    IN  /\ spare_nodes' = Len(s2)
                        /\ IF check = "ok"
                           THEN /\ root' = after[1]
                                /\ stack' = after[2]
                                /\ UNCHANGED <<raised, pc>>
                           ELSE /\ root' = r1
                                /\ stack' = s2
                                /\ raised' = check
                                /\ pc' = "failed"
    /\ UNCHANGED <<ret, errors, calls, kind>>

ParseOpen(stream) ==
    /\ pc = "parse"
    /\ \E tok \in stream :
        /\ ~(tok.type = "ENDMARKER" \/ tok.type \in WHITESPACE_TOKENS)
        /\ from_token(tok) = OPEN_PAREN
        /\ tokens' = Append(tokens, tok)
        /\ spare_tokens' = <<>>
        /\ root' = Flushed[1]
        /\ stack' = Append(Flushed[2], OpenParensGroup(SingleTokenNode(tok)))
        /\ spare_nodes' = Len(stack) + 1
    /\ UNCHANGED <<pc, raised, ret, errors, calls, kind>>

ParseComma(stream) ==
    /\ pc = "parse"
    /\ \E tok \in stream :
        /\ ~(tok.type = "ENDMARKER" \/ tok.type \in WHITESPACE_TOKENS)
        /\ from_token(tok) = COMMA
        /\ tokens' = Append(tokens, tok)
        /\ spare_tokens' = <<>>
        /\ LET after == AppendTo(spare_nodes, SingleTokenNode(tok),
                                 Flushed[1], Flushed[2])
           IN  /\ root' = after[1]
               /\ stack' = after[2]
    /\ UNCHANGED <<spare_nodes, pc, raised, ret, errors, calls, kind>>

\* Lines 265-268: the iterable is exhausted.
ParseEnd ==
    /\ pc = "parse"
    /\ root' = IF spare_tokens # <<>>
               THEN Append(root, MultiTokenNode(spare_tokens))
               ELSE root
    /\ ret' = <<Node(root')>>
    /\ pc' = "parsed"
    /\ UNCHANGED <<tokens, stack, spare_tokens, spare_nodes, raised, errors,
                   calls, kind>>

\* process: validate(parse_ast(tokens)).  An exception of the evaluation
\* ends the program with no error list.
Validate ==
    /\ pc = "parsed"
    /\ IF validate_raises(ret[1]) # "none"
       THEN /\ pc' = "failed"
            /\ raised' = validate_raises(ret[1])
            /\ UNCHANGED <<errors, calls>>
       ELSE /\ errors' = validate(ret[1]).errors
            /\ calls' = validate(ret[1]).calls
            /\ pc' = "done"
            /\ UNCHANGED raised
    /\ UNCHANGED <<tokens, stack, spare_tokens, spare_nodes, root, ret, kind>>

InitParse ==
    /\ tokens = <<>>
    /\ stack = <<>>
    /\ spare_tokens = <<>>
    /\ spare_nodes = 0
    /\ root = <<>>
    /\ pc = "parse"
    /\ raised = "none"
    /\ ret = <<>>
    /\ errors = <<>>
    /\ calls = <<>>
    /\ kind = "none"

NextBuild ==
    \/ ParseSkip(BuildStream)
    \/ ParseOther(BuildStream)
    \/ ParseClose(BuildStream)
    \/ ParseOpen(BuildStream)
    \/ ParseComma(BuildStream)
    \/ ParseEnd
    \/ Validate

SpecBuild == InitParse /\ [][NextBuild]_vars

NextEval ==
    \/ ParseOther(EvalStream)
    \/ ParseClose(EvalStream)
    \/ ParseOpen(EvalStream)
    \/ ParseComma(EvalStream)
    \/ ParseEnd
    \/ Validate

SpecEval == InitParse /\ [][NextEval]_vars

NextOrder ==
    \/ ParseOther(OrderStream)
    \/ ParseClose(OrderStream)
    \/ ParseOpen(OrderStream)
    \/ ParseComma(OrderStream)
    \/ ParseEnd
    \/ Validate

SpecOrder == InitParse /\ [][NextOrder]_vars

(***************************************************************************)
(* A stand-alone call of NodeKind.from_token on one token of any type and  *)
(* text.                                                                   *)
(***************************************************************************)
TokenTypes ==
    {"OP", "NAME", "NUMBER", "STRING", "COMMENT", "ERRORTOKEN", "NEWLINE",
     "NL", "INDENT", "DEDENT", "ENDMARKER"}

TokenTexts ==
    { <<",">>, <<"(">>, <<"[">>, <<"{">>, <<")">>, <<"]">>, <<"}">>,
      <<"+">>, <<":">>, <<"-", ">">>, <<"a">>, <<>>, <<"(", "[">>,
      <<"]", "}">>, <<"(", ")">>, <<",", ",">> }

InitClassify ==
    /\ \E ty \in TokenTypes, tx \in TokenTexts :
          tokens = << [type |-> ty, string |-> tx, start |-> <<1, 0>>,
                       end |-> <<1, Len(tx)>>] >>
    /\ stack = <<>>
    /\ spare_tokens = <<>>
    /\ spare_nodes = 0
    /\ root = <<>>
    /\ pc = "classify"
    /\ raised = "none"
    /\ ret = <<>>
    /\ errors = <<>>
    /\ calls = <<>>
    /\ kind = "none"

Classify ==
    /\ pc = "classify"
    /\ kind' = from_token(tokens[1])
    /\ pc' = "classified"
    /\ UNCHANGED <<tokens, stack, spare_tokens, spare_nodes, root, raised, ret,
                   errors, calls>>

NextClassify == Classify

SpecClassify == InitClassify /\ [][NextClassify]_vars

(***************************************************************************)
(* Vocabulary of the properties.                                           *)
(***************************************************************************)
OpenTexts == {<<"(">>, <<"[">>, <<"{">>}
CloseTexts == {<<")">>, <<"]">>, <<"}">>}

IsCommaToken(tok) == tok.type = "OP" /\ tok.string = <<",">>
IsOpenToken(tok) == tok.type = "OP" /\ tok.string \in OpenTexts
IsCloseToken(tok) == tok.type = "OP" /\ tok.string \in CloseTexts
IsSignificant(tok) == IsCommaToken(tok) \/ IsOpenToken(tok) \/ IsCloseToken(tok)

Significant(toks) == SelectSeq(toks, IsSignificant)

Partner(text) ==
    CASE text = <<"(">> -> <<")">>
      [] text = <<"[">> -> <<"]">>
      [] text = <<"{">> -> <<"}">>

\* The texts of the openers still unclosed after toks, innermost last, or
\* <<"unbalanced">> once a closer had no opener or the wrong opener.
RECURSIVE Unclosed(_, _)
Unclosed(toks, open) ==
    IF toks = <<>> THEN open
    ELSE LET tok == Head(toks)
         IN  IF IsOpenToken(tok)
             THEN Unclosed(Tail(toks), Append(open, tok.string))
             ELSE IF IsCloseToken(tok)
             THEN IF open # <<>> /\ Partner(open[Len(open)]) = tok.string
                  THEN Unclosed(Tail(toks), SubSeq(open, 1, Len(open) - 1))
                  ELSE <<"unbalanced">>
             ELSE Unclosed(Tail(toks), open)

Balanced(toks) == Unclosed(toks, <<>>) = <<>>
Closable(toks) == Unclosed(toks, <<>>) # <<"unbalanced">>

RECURSIVE Leaves(_)
RECURSIVE LeavesOfAll(_)
Leaves(node) ==
    CASE node.t = "SingleTokenNode" -> <<node.token>>
      [] node.t = "MultiTokenNode" -> <<>>
      [] node.t = "ParensGroupNode" ->
            <<node.start.token>> \o LeavesOfAll(node.children)
                \o <<node.end.token>>
      [] OTHER -> LeavesOfAll(node.children)

LeavesOfAll(nodes) ==
    IF nodes = <<>> THEN <<>>
    ELSE Leaves(Head(nodes)) \o LeavesOfAll(Tail(nodes))

\* The tokens held by the Run nodes of a tree, in document order.
RECURSIVE RunTokens(_)
RECURSIVE RunTokensOfAll(_)
RunTokens(node) ==
    CASE node.t = "SingleTokenNode" -> <<>>
      [] node.t = "MultiTokenNode" -> node.tokens
      [] OTHER -> RunTokensOfAll(node.children)

RunTokensOfAll(nodes) ==
    IF nodes = <<>> THEN <<>>
    ELSE RunTokens(Head(nodes)) \o RunTokensOfAll(Tail(nodes))

Returned == ret # <<>>

(***************************************************************************)
(* C1.  For every unbalanced token sequence (extra closer, opener never    *)
(* closed, mismatched closer) parse_ast fails and never returns a tree: a  *)
(* tree is returned only for a balanced sequence.                          *)
(***************************************************************************)
C1_UnbalancedNeverReturns == Returned => Balanced(tokens)

(***************************************************************************)
(* C2.  For every balanced, pairwise matching token sequence parse_ast     *)
(* succeeds (it fails only on a sequence no continuation can balance) and  *)
(* the Leaf tokens of the returned tree, in document order, are exactly    *)
(* the comma and bracket tokens of the input in their original order.      *)
(***************************************************************************)
C2_BalancedBuildsAllLeaves ==
    /\ pc = "failed" => ~Closable(tokens)
    /\ (Returned /\ Balanced(tokens)) =>
          Leaves(ret[1]) = Significant(tokens)

C2_Witness ==
    /\ Returned
    /\ Balanced(tokens)
    /\ Len(Significant(tokens)) = 4
    /\ \E i \in 1..Len(root) :
          /\ root[i].t = "ParensGroupNode"
          /\ \E j \in 1..Len(root[i].children) :
                root[i].children[j].t = "ParensGroupNode"

(***************************************************************************)
(* C8.  from_token is total and returns COMMA exactly for an OP token with *)
(* text ',', OPEN_PAREN exactly for an OP token whose text is one of       *)
(* '(' '[' '{', CLOSE_PAREN exactly for an OP token whose text is one of   *)
(* ')' ']' '}', and OTHER for every other token.                           *)
(***************************************************************************)
C8_ClassifyExact ==
    pc = "classified" =>
        kind = (CASE IsCommaToken(tokens[1]) -> COMMA
                  [] IsOpenToken(tokens[1]) -> OPEN_PAREN
                  [] IsCloseToken(tokens[1]) -> CLOSE_PAREN
                  [] OTHER -> NodeKind_OTHER)

(***************************************************************************)
(* C9.  parse_ast skips only end-of-stream and indentation markers; a      *)
(* line-end marker (NEWLINE / NL) is kept as an OTHER token: it is put in  *)
(* the pending buffer and appears in a Run of the resulting tree.          *)
(***************************************************************************)
IsLineEnd(tok) == tok.type \in {"NEWLINE", "NL"}
IsSkipped(tok) == tok.type \in {"ENDMARKER", "INDENT", "DEDENT", "NEWLINE", "NL"}
IsPlainOther(tok) == ~IsSignificant(tok) /\ ~IsSkipped(tok)

\* Every OTHER token parse_ast holds: in the Runs built so far (those of
\* the root and of the open frames) or in the pending buffer.
HeldTokens ==
    LET inFrames == [i \in 1..Len(stack) |-> Node(stack[i].children)]
    IN  SelectSeq(tokens,
            LAMBDA tok :
                \/ \E i \in 1..Len(spare_tokens) : spare_tokens[i] = tok
                \/ \E i \in 1..Len(RunTokensOfAll(root)) :
                      RunTokensOfAll(root)[i] = tok
                \/ \E i \in 1..Len(RunTokensOfAll(inFrames)) :
                      RunTokensOfAll(inFrames)[i] = tok)

C9_LineEndsKept ==
    (Returned /\ Balanced(tokens)) =>
        \A i \in 1..Len(tokens) :
            IsLineEnd(tokens[i]) =>
                \E j \in 1..Len(RunTokens(ret[1])) :
                    RunTokens(ret[1])[j] = tokens[i]

\* C9 as amended: end-of-stream, indentation and line-end markers are all
\* skipped; while parse_ast runs, the tokens it holds are exactly the other
\* OTHER tokens it has read, and a returned tree of a balanced input holds
\* exactly those in its Runs.
C9_LineEndsSkipped ==
    /\ pc = "parse" => HeldTokens = SelectSeq(tokens, IsPlainOther)
    /\ (Returned /\ Balanced(tokens)) =>
          RunTokens(ret[1]) = SelectSeq(tokens, IsPlainOther)

C9_Witness ==
    /\ Returned
    /\ \E i \in 1..Len(tokens) :
          /\ i + 2 <= Len(tokens)
          /\ tokens[i].type = "NAME"
          /\ IsLineEnd(tokens[i + 1])
          /\ tokens[i + 2].type = "NAME"
    /\ \E i \in 1..Len(root) :
          /\ root[i].t = "MultiTokenNode"
          /\ Len(root[i].tokens) = 2
          /\ root[i].tokens[1].start[1] # root[i].tokens[2].start[1]

(***************************************************************************)
(* Vocabulary of the evaluation properties.  A Group is looked at through  *)
(* its items [opener, segment_1 .. segment_k, closer]; an item is a record *)
(* [pos, first, last, closing, text]: its start position, the line it      *)
(* starts on, the line it ends on, whether it is the closing leaf and, for *)
(* the closing leaf, its text.                                             *)
(***************************************************************************)
Evaluated == pc = "done"

\* Every Group of the node list, with the path of child indices to it.
RECURSIVE GroupsIn(_, _)
GroupsIn(nodes, path) ==
    UNION { IF nodes[i].t = "ParensGroupNode"
            THEN {[path |-> Append(path, i), node |-> nodes[i]]}
                 \cup GroupsIn(nodes[i].children, Append(path, i))
            ELSE {} : i \in 1..Len(nodes) }

AllGroups == GroupsIn(ret[1].children, <<>>)

IsCommaLeaf(n) == n.t = "SingleTokenNode" /\ IsCommaToken(n.token)

FirstPos(n) ==
    IF n.t = "MultiTokenNode" THEN n.tokens[1].start ELSE n.start.token.start

LastLine(n) ==
    IF n.t = "MultiTokenNode" THEN n.tokens[Len(n.tokens)].end[1]
    ELSE n.end.token.end[1]

\* The indices at which a segment of the child list ch begins, ascending,
\* and the index at which the segment beginning at i ends.
SegmentStarts(ch) ==
    SelectSeq([i \in 1..Len(ch) |-> i],
              LAMBDA i : ~IsCommaLeaf(ch[i]) /\ (i = 1 \/ IsCommaLeaf(ch[i - 1])))

SegmentEnd(ch, i) ==
    CHOOSE j \in i..Len(ch) :
        /\ \A k \in i..j : ~IsCommaLeaf(ch[k])
        /\ j = Len(ch) \/ IsCommaLeaf(ch[j + 1])

Items(g) ==
    LET ch == g.children
        at == SegmentStarts(ch)
    IN  << [pos |-> g.start.token.start, first |-> g.start.token.start[1],
            last |-> g.start.token.end[1], closing |-> FALSE, text |-> <<>>] >>
        \o [k \in 1..Len(at) |->
              [pos |-> FirstPos(ch[at[k]]), first |-> FirstPos(ch[at[k]])[1],
               last |-> LastLine(ch[SegmentEnd(ch, at[k])]),
               closing |-> FALSE, text |-> <<>>]]
        \o << [pos |-> g.end.token.start, first |-> g.end.token.start[1],
               last |-> g.end.token.end[1], closing |-> TRUE,
               text |-> g.end.token.string] >>

\* The indices (2 .. number of items) of the hugging items, ascending.
Hugging(g) ==
    SelectSeq([k \in 1..(Len(Items(g)) - 1) |-> k + 1],
              LAMBDA k : Items(g)[k].first = Items(g)[k - 1].last)

Skipped(g) ==
    \/ g.start.token.start[1] = g.end.token.end[1]
    \/ g.children = <<>>

Diagnostic(item) ==
    [line |-> item.pos[1], col |-> item.pos[2],
     message |-> IF item.closing
                 THEN <<"Closing ", "'">> \o item.text \o <<"'", " not wrapped">>
                 ELSE <<"Argument should be wrapped when containing parens are wrapped">>]

\* The diagnostics of errs located at an item of g other than its opener:
\* token positions are distinct, so these are the ones reported for g.
ReportedFor(errs, g) ==
    SelectSeq(errs,
        LAMBDA e : \E k \in 2..Len(Items(g)) :
                      Items(g)[k].pos = <<e.line, e.col>>)

(***************************************************************************)
(* C3.  For every Group that is not skipped the diagnostics reported for   *)
(* it are exactly one per hugging item, in item order, at that item's      *)
(* start position and with the item's message, when some but not all of    *)
(* the evaluated items hug; and none otherwise.                            *)
(***************************************************************************)
C3_OnePerHuggingItem ==
    Evaluated =>
        \A gp \in AllGroups :
            LET g == gp.node
                hug == Hugging(g)
            IN  ~Skipped(g) =>
                    ReportedFor(errors, g) =
                        IF hug # <<>> /\ Len(hug) < Len(Items(g)) - 1
                        THEN [i \in 1..Len(hug) |-> Diagnostic(Items(g)[hug[i]])]
                        ELSE <<>>

\* A flagged Group whose closing leaf and one of whose segments hug.
C3_Witness ==
    /\ Evaluated
    /\ \E gp \in AllGroups :
          /\ ~Skipped(gp.node)
          /\ Len(Hugging(gp.node)) = 2
          /\ Len(Items(gp.node)) = 4
          /\ Items(gp.node)[Hugging(gp.node)[2]].closing
          /\ Len(ReportedFor(errors, gp.node)) = 2

(***************************************************************************)
(* C4.  For every multi-line Group in which exactly one segment hugs,      *)
(* namely the first segment starting on the line of the opening bracket,   *)
(* exactly one diagnostic is reported for the Group: at that segment's     *)
(* start, with the "Argument should be wrapped ..." message.               *)
(***************************************************************************)
OnlyFirstSegmentHugs(g) ==
    /\ g.start.token.start[1] # g.end.token.end[1]
    /\ Len(Items(g)) >= 3
    /\ \A k \in 2..(Len(Items(g)) - 1) :
          (Items(g)[k].first = Items(g)[k - 1].last) <=> (k = 2)

FirstSegmentDiagnostic(g) ==
    << [line |-> Items(g)[2].pos[1], col |-> Items(g)[2].pos[2],
        message |-> ArgumentMessage] >>

C4_OneHuggingSegment ==
    Evaluated =>
        \A gp \in AllGroups :
            OnlyFirstSegmentHugs(gp.node) =>
                ReportedFor(errors, gp.node) = FirstSegmentDiagnostic(gp.node)

ClosingHugs(g) ==
    Items(g)[Len(Items(g))].first = Items(g)[Len(Items(g)) - 1].last

\* C4 as amended: the closing bracket must not hug either, so that the first
\* segment is the only hugging item of the Group.
C4_OneHuggingItem ==
    Evaluated =>
        \A gp \in AllGroups :
            (OnlyFirstSegmentHugs(gp.node) /\ ~ClosingHugs(gp.node)) =>
                ReportedFor(errors, gp.node) = FirstSegmentDiagnostic(gp.node)

C4_Witness ==
    /\ Evaluated
    /\ \E gp \in AllGroups :
          /\ OnlyFirstSegmentHugs(gp.node)
          /\ ~ClosingHugs(gp.node)
          /\ Len(Items(gp.node)) = 4
          /\ errors = FirstSegmentDiagnostic(gp.node)

(***************************************************************************)
(* Nesting and order.                                                      *)
(***************************************************************************)
\* Path p leads to a proper ancestor of the node path q leads to.
Above(p, q) == Len(p) < Len(q) /\ SubSeq(q, 1, Len(p)) = p

\* p comes before q in a pre-order traversal.
PreOrderBefore(p, q) ==
    \/ Above(p, q)
    \/ \E k \in 1..Len(p) :
          /\ k <= Len(q)
          /\ SubSeq(p, 1, k - 1) = SubSeq(q, 1, k - 1)
          /\ p[k] < q[k]

PosBefore(a, b) == a[1] < b[1] \/ (a[1] = b[1] /\ a[2] < b[2])

SingleLine(g) == g.start.token.start[1] = g.end.token.end[1]

\* The diagnostics of errs located inside g: after its opener, up to and
\* including its closer.
ReportedInside(errs, g) ==
    SelectSeq(errs,
        LAMBDA e : /\ PosBefore(g.start.token.start, <<e.line, e.col>>)
                   /\ ~PosBefore(g.end.token.start, <<e.line, e.col>>))

(***************************************************************************)
(* C5.  For every Group whose opening and closing leaf are on the same     *)
(* line no diagnostic is reported for that Group or for any Group nested   *)
(* inside it, whatever its children are.                                   *)
(***************************************************************************)
C5_SingleLineSilent ==
    Evaluated =>
        \A gp \in AllGroups :
            SingleLine(gp.node) =>
                /\ ReportedFor(errors, gp.node) = <<>>
                /\ \A hp \in AllGroups :
                      Above(gp.path, hp.path) =>
                          ReportedFor(errors, hp.node) = <<>>

\* A single-line Group holding a comma and a nested Group.
C5_Witness ==
    /\ Evaluated
    /\ \E gp \in AllGroups :
          /\ SingleLine(gp.node)
          /\ \E i, j \in 1..Len(gp.node.children) :
                /\ IsCommaLeaf(gp.node.children[i])
                /\ gp.node.children[j].t = "ParensGroupNode"

(***************************************************************************)
(* C6.  Hugging is decided per nesting level.  (a) The diagnostics         *)
(* reported inside a Group nested directly in a multi-line Group are those *)
(* of evaluating the nested Group on its own, whether or not the enclosing *)
(* Group was flagged.  (b) The diagnostics reported for a Group are those  *)
(* of evaluating it with every nested Group emptied, so whether a nested   *)
(* Group is flagged adds or removes none of them.                          *)
(***************************************************************************)
Emptied(g) ==
    ParensGroupNode(g.start,
        [i \in 1..Len(g.children) |->
            IF g.children[i].t = "ParensGroupNode"
            THEN ParensGroupNode(g.children[i].start, <<>>, g.children[i].end)
            ELSE g.children[i]],
        g.end)

C6_PerLevel ==
    Evaluated =>
        \A gp \in AllGroups :
            ~Skipped(gp.node) =>
                /\ \A hp \in AllGroups :
                      (Above(gp.path, hp.path) /\ Len(hp.path) = Len(gp.path) + 1)
                      => ReportedInside(errors, hp.node)
                            = validate(Node(<<hp.node>>)).errors
                /\ ReportedFor(errors, gp.node)
                      = validate(Node(<<Emptied(gp.node)>>)).errors

\* A flagged Group that holds a flagged Group.
C6_Witness ==
    /\ Evaluated
    /\ \E gp, hp \in AllGroups :
          /\ Above(gp.path, hp.path)
          /\ ReportedFor(errors, gp.node) # <<>>
          /\ ReportedFor(errors, hp.node) # <<>>

(***************************************************************************)
(* C7.  The list validate returns is in pre-order: the diagnostics of a    *)
(* Group precede those of every Group nested inside it, those of an        *)
(* earlier sibling subtree precede those of a later one, and the           *)
(* diagnostics of Groups at the same depth are in ascending (line, column) *)
(* order.                                                                  *)
(***************************************************************************)
C7_PreOrder ==
    Evaluated =>
        \A i, j \in 1..Len(errors) :
            i < j =>
                /\ \E gp \in AllGroups : ReportedFor(<<errors[i]>>, gp.node) # <<>>
                /\ \A gp, hp \in AllGroups :
                      ( /\ ReportedFor(<<errors[i]>>, gp.node) # <<>>
                        /\ ReportedFor(<<errors[j]>>, hp.node) # <<>> )
                      => /\ gp.path = hp.path \/ PreOrderBefore(gp.path, hp.path)
                         /\ Len(gp.path) = Len(hp.path) =>
                               PosBefore(<<errors[i].line, errors[i].col>>,
                                         <<errors[j].line, errors[j].col>>)

\* Two flagged Groups side by side, the diagnostics of the earlier first.
C7_Witness ==
    /\ Evaluated
    /\ \E i, j \in 1..Len(errors) :
          /\ i < j
          /\ \E gp, sp \in AllGroups :
                /\ Len(sp.path) = Len(gp.path)
                /\ PreOrderBefore(gp.path, sp.path)
                /\ ReportedFor(<<errors[i]>>, gp.node) # <<>>
                /\ ReportedFor(<<errors[j]>>, sp.node) # <<>>

(***************************************************************************)
(* C10.  When a Group is skipped (single line, or no children) no          *)
(* diagnostic is emitted for it but its children are still visited, so     *)
(* every Group nested inside a skipped Group is itself evaluated.          *)
(***************************************************************************)
WasEntered(g) == \E i \in 1..Len(calls) : calls[i] = g.start.token.start

C10_SkippedStillRecurses ==
    Evaluated =>
        \A gp, hp \in AllGroups :
            (Skipped(gp.node) /\ Above(gp.path, hp.path)) =>
                /\ ReportedFor(errors, gp.node) = <<>>
                /\ WasEntered(hp.node)

\* C10 as amended: a skipped Group emits no diagnostic, its children are not
\* visited: visitParensGroupNode is invoked on a Group exactly when no
\* Group around it is skipped, and nothing is reported inside a skipped
\* Group.
C10_SkippedNotEntered ==
    Evaluated =>
        \A hp \in AllGroups :
            /\ WasEntered(hp.node) <=>
                  ~\E gp \in AllGroups :
                       Above(gp.path, hp.path) /\ Skipped(gp.node)
            /\ Skipped(hp.node) => ReportedInside(errors, hp.node) = <<>>

\* A skipped Group with a Group nested inside it, beside a visited one.
C10_Witness ==
    /\ Evaluated
    /\ \E gp, hp \in AllGroups :
          /\ Skipped(gp.node)
          /\ Above(gp.path, hp.path)
          /\ WasEntered(gp.node)
          /\ ~WasEntered(hp.node)

(***************************************************************************)
(* Vocabulary of C11: the Run nodes of the returned tree and its child     *)
(* lists (the root's and every Group's).                                   *)
(***************************************************************************)
RECURSIVE RunsIn(_)
RunsIn(nodes) ==
    UNION { CASE nodes[i].t = "MultiTokenNode" -> {nodes[i]}
              [] nodes[i].t = "SingleTokenNode" -> {}
              [] OTHER -> RunsIn(nodes[i].children) : i \in 1..Len(nodes) }

ChildLists == {ret[1].children} \cup {g.node.children : g \in AllGroups}

IsRun(n) == n.t = "MultiTokenNode"

AdjacentRuns(children) ==
    \E i \in 1..(Len(children) - 1) : IsRun(children[i]) /\ IsRun(children[i + 1])

(***************************************************************************)
(* C11.  In every tree returned by parse_ast every Run holds a non-empty   *)
(* token list of Other tokens only, and no child list of the root or of a  *)
(* Group contains two adjacent Runs.                                       *)
(***************************************************************************)
C11_RunsMaximal ==
    Returned =>
        /\ \A r \in RunsIn(ret[1].children) :
              /\ r.tokens # <<>>
              /\ \A i \in 1..Len(r.tokens) :
                    from_token(r.tokens[i]) = NodeKind_OTHER
        /\ \A children \in ChildLists : ~AdjacentRuns(children)

(***************************************************************************)
(* Vocabulary of C12: the items validate pairs up for one Group, which are *)
(* the opener, one container per comma-separated segment, and the closer.  *)
(***************************************************************************)
IsRunOrGroup(n) == n.t \in {"MultiTokenNode", "ParensGroupNode"}

SegmentsSound(g) ==
    LET items == iter_comma_separated(g)
    IN  /\ Len(items) >= 2
        /\ items[1] = g.start
        /\ items[Len(items)] = g.end
        /\ \A k \in 2..(Len(items) - 1) :
              /\ items[k].t = "Node"
              /\ items[k].children # <<>>
              /\ IsRunOrGroup(items[k].children[1])
              /\ IsRunOrGroup(items[k].children[Len(items[k].children)])

OnlyCommas(g) ==
    /\ g.children # <<>>
    /\ \A i \in 1..Len(g.children) : IsCommaLeaf(g.children[i])

(***************************************************************************)
(* C12.  Once parse_ast has returned a tree, validate raises no exception: *)
(* the program is about to evaluate or has evaluated, never failed; and    *)
(* for every Group of the tree the paired items are at least the opener    *)
(* and the closer, with every segment container between them non-empty and *)
(* beginning and ending with a Run or a Group.                             *)
(***************************************************************************)
C12_EvaluateNeverFails ==
    Returned =>
        /\ pc \in {"parsed", "done"}
        /\ raised = "none"
        /\ \A g \in AllGroups : SegmentsSound(g.node)

\* A multi-line Group whose children are only commas has been evaluated.
C12_Witness ==
    /\ Evaluated
    /\ \E g \in AllGroups :
          /\ OnlyCommas(g.node)
          /\ ~Skipped(g.node)
          /\ WasEntered(g.node)
          /\ iter_comma_separated(g.node) = <<g.node.start, g.node.end>>
====
